---- MODULE Spec2Model ----
(***************************************************************************)
(* A model of app/core/oauth.py: OAuth2Client (authorization URL, the      *)
(* four grant-type token exchanges, expiry check, refresh), its token      *)
(* storage and the token endpoint it talks to.                             *)
(*                                                                         *)
(* Python values are modelled as follows.  A dict is a function whose      *)
(* DOMAIN is the set of keys present.  Opaque strings (tokens, verifiers,  *)
(* codes) are strings; the n-th value generated is tagged with n.  None    *)
(* in a string-valued slot is the string "None".  A missing token          *)
(* (storage returns None) is the empty dict: every test the client makes   *)
(* on a loaded token is a truthiness test (`not token`), which cannot      *)
(* tell None from {}.  Time is in whole seconds.                           *)
(*                                                                         *)
(* Spec is the client driven by one caller, one operation per step.        *)
(* SpecConc is NCallers threads inside get_token(auto_refresh=True) at     *)
(* once, one source line (or one blocking call) per step.  SpecCall is one *)
(* fetch_token or refresh_token call over a wider range of clients,        *)
(* arguments and answers.  SpecStore is the two token storages driven      *)
(* directly.                                                               *)
(***************************************************************************)
EXTENDS Integers, Sequences, FiniteSets, TLC

\* ------------------------------------------------------------- bounds
MaxTime == 1
MaxVerifiers == 2
MaxRequests == 2
NCallers == 2

\* ---------------------------------------------------- program constants
ExpiryBuffer == 10

VARIABLES
  cfg,            \* the constructor's arguments (OAuth2Client.__init__)
  code_verifier,  \* self._code_verifier
  store,          \* InMemoryTokenStorage.token
  now,            \* time.time()
  nverif,         \* how many verifiers _generate_code_verifier has produced
  nreq,           \* how many token requests reached requests.post
  verifiersSent,  \* the code_verifier values of the token requests, in order
  last,           \* the last call of the single caller: arguments and outcome
  srv,            \* the token endpoint: its mode and the refresh token it accepts
  pc,             \* SpecConc: where each caller is inside get_token
  ltoken,         \* SpecConc: each caller's local `token`
  wire,           \* SpecConc: each caller's request/response in flight
  result,         \* SpecConc: what each caller's get_token returned or raised
  file,           \* FileTokenStorage: the file at file_path
  saved,          \* per storage, the record of its last save_token not yet deleted
  mongo_client,   \* app.db.database.mongo_client
  db,             \* app.db.database.db
  dbCalls         \* the connect_to_mongo / close_mongo_connection calls so far, in order

vars == <<cfg, code_verifier, store, now, nverif, nreq, verifiersSent, last,
          srv, pc, ltoken, wire, result, file, saved, mongo_client, db, dbCalls>>

seqVars == <<cfg, code_verifier, store, now, nverif, nreq, verifiersSent, last>>
concVars == <<srv, pc, ltoken, wire, result>>
fileVars == <<file, saved>>
dbVars == <<mongo_client, db, dbCalls>>

\* ------------------------------------------------------ Python values
None == "None"
True == "True"
False == "False"

\* `if x` / `not x` for an Optional[str] or a bool
Truthy(x) == x \notin {None, False, ""}

EmptyDict == <<>>

\* d[k] = v
Put(d, k, v) == [x \in DOMAIN d \cup {k} |-> IF x = k THEN v ELSE d[x]]

\* d.update(e)
Update(d, e) == [x \in DOMAIN d \cup DOMAIN e |-> IF x \in DOMAIN e THEN e[x] ELSE d[x]]

\* d.get(k, default)
Get(d, k, default) == IF k \in DOMAIN d THEN d[k] ELSE default

\* kwargs.pop(k) as far as the remaining dict goes
Without(d, k) == [x \in DOMAIN d \ {k} |-> d[x]]

\* " ".join(scope)
RECURSIVE JoinScope(_)
JoinScope(s) ==
  IF Len(s) = 0 THEN ""
  ELSE IF Len(s) = 1 THEN s[1]
  ELSE s[1] \o " " \o JoinScope(Tail(s))

\* ------------------------------------------------------ configuration
ClientConfig(secret, token_url, auth_url, redirect_uri, scope) ==
  [client_id |-> "cid", client_secret |-> secret, token_url |-> token_url,
   auth_url |-> auth_url, redirect_uri |-> redirect_uri, scope |-> scope]

\* a confidential client with every endpoint and two scopes configured
FullConfig ==
  ClientConfig("sec", "https://tok", "https://auth", "https://cb", <<"read", "write">>)

\* a public client: no secret, no scope
PublicConfig == ClientConfig(None, "https://tok", "https://auth", "https://cb", <<>>)

\* the clients the caller may have constructed: the two above, and one for each
\* of token_url, auth_url and redirect_uri left out
Configs ==
  { FullConfig, PublicConfig,
    ClientConfig("sec", None, "https://auth", "https://cb", <<>>),
    ClientConfig("sec", "https://tok", None, "https://cb", <<>>),
    ClientConfig("sec", "https://tok", "https://auth", None, <<>>) }

\* ------------------------------------------------------------ errors
NoError == [type |-> None, msg |-> ""]
Raise(type, msg) == [type |-> type, msg |-> msg]

\* `except OAuth2Error`: TokenError is a subclass of OAuth2Error
IsAnyException(e) == e # NoError

IsOAuth2Error(e) == e.type \in {"OAuth2Error", "TokenError"}

\* ------------------------------------------------------------- PKCE
\* _generate_code_verifier: 64 random bytes, base64url; the n-th draw is "v<n>"
GenerateCodeVerifier(n) == "v" \o ToString(n)

\* _generate_code_challenge: base64url(sha256(verifier)), an injective tag
GenerateCodeChallenge(verifier) == "S256:" \o verifier

\* ------------------------------------------------------ expiry policy
\* the comparison made strict
IsTokenExpiredStrict(token, t) ==
  IF "expires_at" \notin DOMAIN token THEN FALSE
  ELSE token["expires_at"] < t + ExpiryBuffer

\* _is_token_expired
IsTokenExpired(token, t) ==
  IF "expires_at" \notin DOMAIN token THEN FALSE
  ELSE token["expires_at"] <= t + ExpiryBuffer

\* ------------------------------------------------ the token endpoint
NoRequest == [sent |-> FALSE, data |-> EmptyDict, auth |-> <<>>]

\* requests' form encoding of `data`: a key whose value is None is left out
FormBody(data) == [k \in {x \in DOMAIN data : data[x] # None} |-> data[k]]

\* the JSON bodies a 200 response may carry for the n-th request: with and
\* without a refresh token, short-lived, long-lived, with the server's own
\* expires_at, and without any expiry
TokenBodies(n) ==
  LET at == "at" \o ToString(n)
      rt == "rt" \o ToString(n)
  IN { [access_token |-> at, refresh_token |-> rt, expires_in |-> 11],
       [access_token |-> at, refresh_token |-> rt, expires_in |-> 5],
       [access_token |-> at, token_type |-> "mac", expires_in |-> 11, expires_at |-> 12],
       [access_token |-> at] }

\* what requests.post gives back: a response (status, body, whether the body
\* parses as JSON and to what), or a transport exception
NoResponse == [kind |-> None, status |-> 0, parses |-> FALSE, json |-> EmptyDict, text |-> ""]
HttpResponse(status, parses, json, text) ==
  [kind |-> "http", status |-> status, parses |-> parses, json |-> json, text |-> text]
TransportFailure ==
  [kind |-> "transport", status |-> 0, parses |-> FALSE, json |-> EmptyDict, text |-> ""]

OkResponses(n) == { HttpResponse(200, TRUE, b, "{...}") : b \in TokenBodies(n) }

ErrorResponses ==
  { HttpResponse(400, TRUE,
                 [error |-> "invalid_grant", error_description |-> "bad code"], "{...}"),
    HttpResponse(500, FALSE, EmptyDict, "oops"),
    TransportFailure }

Responses(n) == OkResponses(n) \cup ErrorResponses

\* ------------------------------------------------------ token storage
\* a save that merges into the record already there
SaveTokenMerged(slot, token) == Update(slot, token)

\* InMemoryTokenStorage.save_token: the slot afterwards
SaveToken(slot, token) == token

\* InMemoryTokenStorage.get_token
LoadToken(slot) == slot

\* a delete that leaves the record in place
DeleteTokenKept(slot) == slot

\* InMemoryTokenStorage.delete_token: the slot afterwards
DeleteToken(slot) == EmptyDict

\* ---- FileTokenStorage.  The file is absent or holds a JSON object, kept as
\* the literal text of each member.  A record's numeric fields are written as
\* decimal numbers and its other fields as quoted strings.
NoFile == [exists |-> FALSE, text |-> EmptyDict]
FileWith(text) == [exists |-> TRUE, text |-> text]

NumericFields == {"expires_in", "expires_at"}
Digits == <<"0", "1", "2", "3", "4", "5", "6", "7", "8", "9">>

\* json.dump of one member's value
JsonLiteral(k, v) == IF k \in NumericFields THEN ToString(v) ELSE "\"" \o v \o "\""

\* json.dump(token, f)
JsonDump(token) == [k \in DOMAIN token |-> JsonLiteral(k, token[k])]

\* the number a decimal literal stands for
RECURSIVE ParseNumber(_)
ParseNumber(lit) ==
  IF Len(lit) = 0 THEN 0
  ELSE 10 * ParseNumber(SubSeq(lit, 1, Len(lit) - 1))
       + ((CHOOSE d \in 1..10 : Digits[d] = SubSeq(lit, Len(lit), Len(lit))) - 1)

\* json.load of one member's value: a quoted literal is a string, any other
\* a number
JsonValue(lit) ==
  IF SubSeq(lit, 1, 1) = "\"" THEN SubSeq(lit, 2, Len(lit) - 1) ELSE ParseNumber(lit)

\* json.load(f)
JsonLoad(text) == [k \in DOMAIN text |-> JsonValue(text[k])]

\* FileTokenStorage.save_token: the file afterwards (opened for writing, so
\* whatever was there is gone)
FileSaveToken(f, token) == FileWith(JsonDump(token))

\* FileTokenStorage.get_token: FileNotFoundError gives None
FileLoadToken(f) == IF f.exists THEN JsonLoad(f.text) ELSE EmptyDict

\* a delete that leaves the file in place
FileDeleteTokenKept(f) == f

\* FileTokenStorage.delete_token: the file afterwards
FileDeleteToken(f) == IF f.exists THEN NoFile ELSE f

\* ------------------------------------------------------- fetch_token
\* the verifier left in place after use
VerifierKept(cv) == cv

\* line 160: self._code_verifier after it went into the request
VerifierAfterUse(cv) == None

\* lines 132-187: the checks and the request parameters.  Gives the error raised
\* before any request (or NoError), the `data` and `auth` handed to
\* requests.post, and self._code_verifier afterwards.
Prepared(err, data, auth, verifier) ==
  [err |-> err, data |-> data, auth |-> auth, verifier |-> verifier]

\* the verifier dropped by a check that fails
RaiseAndClearVerifier(msg, cv) == Prepared(Raise("OAuth2Error", msg), EmptyDict, <<>>, None)

\* the wrong exception class raised by a check that fails
RaiseAsTokenError(msg, cv) == Prepared(Raise("TokenError", msg), EmptyDict, <<>>, cv)

\* lines 133, 152, 164, 181: `raise OAuth2Error(msg)` before anything is sent;
\* nothing was assigned to self._code_verifier
RaiseBeforeRequest(msg, cv) == Prepared(Raise("OAuth2Error", msg), EmptyDict, <<>>, cv)

\* the secret put into the body whatever the flag says
SecretAlwaysInBody(c, grant_type, kwargs) == Truthy(c.client_secret)

\* lines 142-144: whether data["client_secret"] is set
SecretInBody(c, grant_type, kwargs) ==
  Truthy(c.client_secret)
  /\ (grant_type # "authorization_code" \/ ~Truthy(Get(kwargs, "use_basic_auth", False)))

FetchPrepare(c, cv, st, grant_type, code, username, password, kwargs) ==
  LET inBody == SecretInBody(c, grant_type, kwargs)
      data0 == [grant_type |-> grant_type, client_id |-> c.client_id]
      data1 == IF inBody THEN Put(data0, "client_secret", c.client_secret) ELSE data0
      auth  == IF Truthy(c.client_secret) /\ ~inBody
               THEN <<c.client_id, c.client_secret>> ELSE <<>>
      failed(msg) == RaiseBeforeRequest(msg, cv)
      scoped(d) == IF Len(c.scope) > 0 THEN Put(d, "scope", JoinScope(c.scope)) ELSE d
  IN
  IF ~Truthy(c.token_url) THEN failed("Token URL not provided")
  ELSE IF grant_type = "authorization_code" THEN
    IF ~Truthy(code) THEN failed("Authorization code required")
    ELSE
      LET d2 == Put(Put(data1, "code", code), "redirect_uri", c.redirect_uri)
      IN IF Truthy(cv)
         THEN Prepared(NoError, Update(Put(d2, "code_verifier", cv), kwargs), auth,
                       VerifierAfterUse(cv))
         ELSE Prepared(NoError, Update(d2, kwargs), auth, cv)
  ELSE IF grant_type = "password" THEN
    IF ~Truthy(username) \/ ~Truthy(password)
    THEN failed("Username and password required for password grant")
    ELSE Prepared(NoError,
                  Update(scoped(Put(Put(data1, "username", username), "password", password)),
                         kwargs),
                  auth, cv)
  ELSE IF grant_type = "client_credentials" THEN
    Prepared(NoError, Update(scoped(data1), kwargs), auth, cv)
  ELSE IF grant_type = "refresh_token" THEN
    IF ~Truthy(Get(kwargs, "refresh_token", None)) THEN
      LET stored_token == LoadToken(st)
      IN IF stored_token = EmptyDict \/ "refresh_token" \notin DOMAIN stored_token
         THEN failed("Refresh token required")
         ELSE Prepared(NoError,
                       Update(Put(data1, "refresh_token", stored_token["refresh_token"]),
                              kwargs),
                       auth, cv)
    ELSE Prepared(NoError,
                  Update(Put(data1, "refresh_token", kwargs["refresh_token"]),
                         Without(kwargs, "refresh_token")),
                  auth, cv)
  ELSE Prepared(NoError, Update(data1, kwargs), auth, cv)

\* the error code preferred to the description
ErrorDescriptionCodeFirst(resp) ==
  IF resp.parses
  THEN Get(resp.json, "error", Get(resp.json, "error_description", "Unknown error"))
  ELSE IF resp.text # "" THEN resp.text ELSE "Unknown error"

\* lines 201-209: the message of the TokenError for a non-200 response
ErrorDescription(resp) ==
  IF resp.parses
  THEN Get(resp.json, "error_description", Get(resp.json, "error", "Unknown error"))
  ELSE IF resp.text # "" THEN resp.text ELSE "Unknown error"

TokenEndpointError(resp) ==
  Raise("TokenError",
        "Error fetching token: " \o ErrorDescription(resp)
          \o " (HTTP " \o ToString(resp.status) \o ")")

\* expires_at taken to be expires_in, the receipt time left out
DecodeTokenNoClock(json, t) ==
  IF "expires_in" \in DOMAIN json /\ "expires_at" \notin DOMAIN json
  THEN Put(json, "expires_at", json["expires_in"])
  ELSE json

\* lines 211-215: the decoded body, with expires_at derived at receipt time t
DecodeToken(json, t) ==
  IF "expires_in" \in DOMAIN json /\ "expires_at" \notin DOMAIN json
  THEN Put(json, "expires_at", t + json["expires_in"])
  ELSE json

\* the one value of a set { e(x) : x \in {v} }: e with x bound to the value of v
Once(S) == CHOOSE x \in S : TRUE

\* What one call leaves behind: the exception raised (or NoError), the value
\* returned, the token request sent (or NoRequest), the response to it, and the
\* storage slot and verifier slot afterwards.
Outcome(err, ret, req, resp, st, verifier) ==
  [err |-> err, ret |-> ret, req |-> req, resp |-> resp, store |-> st, verifier |-> verifier]

\* fetch_token as a whole, answered by `resp` at time t
\* fetch_token with the save moved in front of the status check
FetchTokenSavesFirst(c, cv, st, t, grant_type, code, username, password, kwargs, resp) ==
  LET Exchange(p) ==
        LET req == [sent |-> TRUE, data |-> p.data, auth |-> p.auth]
            early == SaveToken(st, DecodeToken(resp.json, t))
        IN
        IF p.err # NoError
        THEN Outcome(p.err, EmptyDict, NoRequest, NoResponse, st, p.verifier)
        ELSE IF resp.kind = "transport"
        THEN Outcome(Raise("ConnectionError", "transport"), EmptyDict, req, resp, st,
                     p.verifier)
        ELSE IF resp.status # 200
        THEN Outcome(TokenEndpointError(resp), EmptyDict, req, resp, early, p.verifier)
        ELSE Outcome(NoError, DecodeToken(resp.json, t), req, resp, early, p.verifier)
  IN Once({ Exchange(p) :
              p \in {FetchPrepare(c, cv, st, grant_type, code, username, password, kwargs)} })

\* fetch_token with the verifier put back when the exchange fails
FetchTokenClearsOnSuccess(c, cv, st, t, grant_type, code, username, password, kwargs, resp) ==
  LET Exchange(p) ==
        LET req == [sent |-> TRUE, data |-> p.data, auth |-> p.auth]
        IN
        IF p.err # NoError
        THEN Outcome(p.err, EmptyDict, NoRequest, NoResponse, st, p.verifier)
        ELSE IF resp.kind = "transport"
        THEN Outcome(Raise("ConnectionError", "transport"), EmptyDict, req, resp, st, cv)
        ELSE IF resp.status # 200
        THEN Outcome(TokenEndpointError(resp), EmptyDict, req, resp, st, cv)
        ELSE Once({ Outcome(NoError, token_data, req, resp, SaveToken(st, token_data),
                            p.verifier) :
                      token_data \in {DecodeToken(resp.json, t)} })
  IN Once({ Exchange(p) :
              p \in {FetchPrepare(c, cv, st, grant_type, code, username, password, kwargs)} })

FetchToken(c, cv, st, t, grant_type, code, username, password, kwargs, resp) ==
  LET Exchange(p) ==
        LET req == [sent |-> TRUE, data |-> p.data, auth |-> p.auth]
        IN
        IF p.err # NoError
        THEN Outcome(p.err, EmptyDict, NoRequest, NoResponse, st, p.verifier)
        ELSE IF resp.kind = "transport"
        THEN Outcome(Raise("ConnectionError", "transport"), EmptyDict, req, resp, st,
                     p.verifier)
        ELSE IF resp.status # 200
        THEN Outcome(TokenEndpointError(resp), EmptyDict, req, resp, st, p.verifier)
        ELSE Once({ Outcome(NoError, token_data, req, resp, SaveToken(st, token_data),
                            p.verifier) :
                      token_data \in {DecodeToken(resp.json, t)} })
  IN Once({ Exchange(p) :
              p \in {FetchPrepare(c, cv, st, grant_type, code, username, password, kwargs)} })

\* refresh_token(refresh_token=None): fetch_token(grant_type="refresh_token",
\* refresh_token=refresh_token), so kwargs always holds the key
RefreshToken(c, cv, st, t, refresh_token, resp) ==
  FetchToken(c, cv, st, t, "refresh_token", None, None, None,
             [refresh_token |-> refresh_token], resp)

\* the refreshed record dropped, the loaded one kept
TokenKeptStale(token, refreshed) == token

\* line 251: `token` after token = self.refresh_token()
TokenAfterRefresh(token, refreshed) == refreshed

\* the test for a missing token left out
NoTokenUnchecked(token) == FALSE

\* line 246: `not token`
NoToken(token) == token = EmptyDict

\* the expiry test made whatever auto_refresh says
ShouldRefreshAlways(auto_refresh, token, t) == IsTokenExpired(token, t)

\* line 249: `auto_refresh and self._is_token_expired(token)`
ShouldRefresh(auto_refresh, token, t) == Truthy(auto_refresh) /\ IsTokenExpired(token, t)

\* get_token, answered by `resp` if it refreshes
GetToken(c, cv, st, t, auto_refresh, resp) ==
  LET token == LoadToken(st)
      noCall(err, ret) == Outcome(err, ret, NoRequest, NoResponse, st, cv)
  IN
  IF NoToken(token) THEN noCall(Raise("TokenError", "No token available"), EmptyDict)
  ELSE IF ShouldRefresh(auto_refresh, token, t) THEN
    LET Refreshed(r) ==
          IF IsOAuth2Error(r.err)
          THEN [r EXCEPT !.err = Raise("TokenError",
                                       "Failed to refresh token: " \o r.err.msg)]
          ELSE IF r.err # NoError THEN r
          ELSE [r EXCEPT !.ret = TokenAfterRefresh(token, r.ret)]
    IN Once({ Refreshed(r) : r \in {RefreshToken(c, cv, st, t, None, resp)} })
  ELSE noCall(NoError, token)

\* get_access_token
GetAccessToken(c, cv, st, t, auto_refresh, resp) ==
  LET Pick(r) ==
        IF r.err = NoError THEN [r EXCEPT !.ret = [value |-> r.ret["access_token"]]] ELSE r
  IN Once({ Pick(r) : r \in {GetToken(c, cv, st, t, auto_refresh, resp)} })

\* ----------------------------------------------- create_authorization_url
\* a URL built without PKCE drops the outstanding verifier
UrlVerifierCleared(cv, use_pkce, n) ==
  IF Truthy(use_pkce) THEN GenerateCodeVerifier(n) ELSE None

\* a second URL keeps the verifier of the first
UrlVerifierKeepFirst(cv, use_pkce, n) ==
  IF Truthy(use_pkce) /\ ~Truthy(cv) THEN GenerateCodeVerifier(n) ELSE cv

\* lines 100-101: self._code_verifier after the call that draws the n-th verifier
UrlVerifier(cv, use_pkce, n) ==
  IF Truthy(use_pkce) THEN GenerateCodeVerifier(n) ELSE cv

\* the URL is kept as its base and its query parameters
CreateAuthorizationUrl(c, cv, n, state, use_pkce, kwargs) ==
  LET noCall(err) == Outcome(err, EmptyDict, NoRequest, NoResponse, EmptyDict, cv)
      st1 == IF ~Truthy(state) THEN "uuid4" ELSE state
      p0  == [response_type |-> "code", client_id |-> c.client_id,
              redirect_uri |-> c.redirect_uri, state |-> st1]
      p1  == IF Len(c.scope) > 0 THEN Put(p0, "scope", JoinScope(c.scope)) ELSE p0
      v   == UrlVerifier(cv, use_pkce, n)
      p2  == IF Truthy(use_pkce)
             THEN Put(Put(p1, "code_challenge", GenerateCodeChallenge(v)),
                      "code_challenge_method", "S256")
             ELSE p1
      p3  == Update(p2, kwargs)
  IN
  IF ~Truthy(c.auth_url) THEN noCall(Raise("OAuth2Error", "Authorization URL not provided"))
  ELSE IF ~Truthy(c.redirect_uri) THEN noCall(Raise("OAuth2Error", "Redirect URI not provided"))
  ELSE Outcome(NoError, [auth_url |-> c.auth_url, params |-> p3, state |-> st1],
               NoRequest, NoResponse, EmptyDict, v)

\* ------------------------------------------------ OAuth2Session.request
\* The value returned is kept as the resource request that went out (method,
\* url, headers) and the response that came back, untouched.
AuthorizationHeaderBearerOnly(token) == "Bearer " \o token["access_token"]

\* line 405: the header value built from the record get_token returned
AuthorizationHeader(token) ==
  Get(token, "token_type", "Bearer") \o " " \o token["access_token"]

\* lines 399-408 with a second attempt added: a 401 makes the session refresh
\* the token before it returns
SessionRequestRefreshOn401(c, cv, st, t, method, url, auto_refresh, headers, resp, status) ==
  LET Issue(r) ==
        IF r.err # NoError THEN r
        ELSE IF status = 401 /\ ~r.req.sent
        THEN RefreshToken(c, r.verifier, r.store, t, None, resp)
        ELSE [r EXCEPT !.ret = [request |-> [method |-> method, url |-> url,
                                             headers |-> Put(headers, "Authorization",
                                                             AuthorizationHeader(r.ret))],
                                response |-> [status |-> status]]]
  IN Once({ Issue(r) : r \in {GetToken(c, cv, st, t, auto_refresh, resp)} })

SessionRequest(c, cv, st, t, method, url, auto_refresh, headers, resp, status) ==
  LET Issue(r) ==
        IF r.err # NoError THEN r
        ELSE [r EXCEPT !.ret = [request |-> [method |-> method, url |-> url,
                                             headers |-> Put(headers, "Authorization",
                                                             AuthorizationHeader(r.ret))],
                                response |-> [status |-> status]]]
  IN Once({ Issue(r) : r \in {GetToken(c, cv, st, t, auto_refresh, resp)} })

\* ================================================== one caller (Spec)
FetchArgs(grant_type, code, username, password, kwargs) ==
  [grant_type |-> grant_type, code |-> code, username |-> username,
   password |-> password, kwargs |-> kwargs]

\* the fetch_token calls the caller makes
FetchCalls ==
  { FetchArgs("authorization_code", None, None, None, EmptyDict),
    FetchArgs("authorization_code", "code1", None, None, EmptyDict),
    FetchArgs("authorization_code", "code1", None, None, [use_basic_auth |-> True]),
    FetchArgs("password", None, "user", "pw", EmptyDict),
    FetchArgs("password", None, "user", None, EmptyDict),
    FetchArgs("client_credentials", None, None, None, EmptyDict),
    FetchArgs("refresh_token", None, None, None, EmptyDict),
    FetchArgs("refresh_token", None, None, None, [refresh_token |-> "rtX"]) }

NoVerdict == None

\* the record of the caller's last step
LastCall(op, args, o, expired) ==
  [op |-> op, args |-> args, err |-> o.err, ret |-> o.ret, req |-> o.req,
   resp |-> o.resp, expired |-> expired]

NoCall ==
  [op |-> None, args |-> EmptyDict, err |-> NoError, ret |-> EmptyDict,
   req |-> NoRequest, resp |-> NoResponse, expired |-> NoVerdict]

\* the bookkeeping every client call shares: the request counter and the
\* verifiers that went out
Sent(o) ==
  /\ o.req.sent => nreq < MaxRequests
  /\ nreq' = IF o.req.sent THEN nreq + 1 ELSE nreq
  /\ verifiersSent' =
       IF o.req.sent /\ "code_verifier" \in DOMAIN FormBody(o.req.data)
       THEN Append(verifiersSent, o.req.data["code_verifier"])
       ELSE verifiersSent

\* a response is drawn only when a request goes out
Answers(sends) == IF sends THEN Responses(nreq + 1) ELSE {NoResponse}

DoCreateAuthorizationUrl ==
  \E state \in {None, "st1"}, use_pkce \in {True, False} :
    \E o \in {CreateAuthorizationUrl(cfg, code_verifier, nverif + 1, state, use_pkce,
                                      EmptyDict)} :
    LET drew == o.err = NoError /\ Truthy(use_pkce)
    IN /\ drew => nverif < MaxVerifiers
       /\ nverif' = IF drew THEN nverif + 1 ELSE nverif
       /\ code_verifier' = o.verifier
       /\ last' = LastCall("create_authorization_url",
                           [state |-> state, use_pkce |-> use_pkce], o, NoVerdict)
       /\ UNCHANGED <<cfg, store, now, nreq, verifiersSent>>
       /\ UNCHANGED concVars
       /\ UNCHANGED fileVars
       /\ UNCHANGED dbVars

DoFetchToken ==
  \E a \in FetchCalls :
    LET sends == FetchPrepare(cfg, code_verifier, store, a.grant_type, a.code,
                              a.username, a.password, a.kwargs).err = NoError
    IN \E resp \in Answers(sends) :
      \E o \in {FetchToken(cfg, code_verifier, store, now, a.grant_type, a.code,
                          a.username, a.password, a.kwargs, resp)} :
         /\ Sent(o)
         /\ code_verifier' = o.verifier
         /\ store' = o.store
         /\ last' = LastCall("fetch_token", a, o, NoVerdict)
         /\ UNCHANGED <<cfg, now, nverif>>
         /\ UNCHANGED concVars
         /\ UNCHANGED fileVars
         /\ UNCHANGED dbVars

DoRefreshToken ==
  \E rt \in {None, "rtX"} :
    LET sends == RefreshToken(cfg, code_verifier, store, now, rt, NoResponse).req.sent
    IN \E resp \in Answers(sends) :
      \E o \in {RefreshToken(cfg, code_verifier, store, now, rt, resp)} :
         /\ Sent(o)
         /\ code_verifier' = o.verifier
         /\ store' = o.store
         /\ last' = LastCall("refresh_token", [refresh_token |-> rt], o, NoVerdict)
         /\ UNCHANGED <<cfg, now, nverif>>
         /\ UNCHANGED concVars
         /\ UNCHANGED fileVars
         /\ UNCHANGED dbVars

\* what _is_token_expired answered inside get_token, if it was asked
Verdict(st, t, auto_refresh) ==
  IF LoadToken(st) # EmptyDict /\ Truthy(auto_refresh)
  THEN (IF IsTokenExpired(LoadToken(st), t) THEN True ELSE False)
  ELSE NoVerdict

DoGetToken ==
  \E auto_refresh \in {True, False} :
    LET sends == GetToken(cfg, code_verifier, store, now, auto_refresh, NoResponse).req.sent
    IN \E resp \in Answers(sends) :
      \E o \in {GetToken(cfg, code_verifier, store, now, auto_refresh, resp)} :
         /\ Sent(o)
         /\ code_verifier' = o.verifier
         /\ store' = o.store
         /\ last' = LastCall("get_token", [auto_refresh |-> auto_refresh], o,
                             Verdict(store, now, auto_refresh))
         /\ UNCHANGED <<cfg, now, nverif>>
         /\ UNCHANGED concVars
         /\ UNCHANGED fileVars
         /\ UNCHANGED dbVars

DoGetAccessToken ==
  \E auto_refresh \in {True, False} :
    LET sends == GetToken(cfg, code_verifier, store, now, auto_refresh, NoResponse).req.sent
    IN \E resp \in Answers(sends) :
      \E o \in {GetAccessToken(cfg, code_verifier, store, now, auto_refresh, resp)} :
         /\ Sent(o)
         /\ code_verifier' = o.verifier
         /\ store' = o.store
         /\ last' = LastCall("get_access_token", [auto_refresh |-> auto_refresh], o,
                             Verdict(store, now, auto_refresh))
         /\ UNCHANGED <<cfg, now, nverif>>
         /\ UNCHANGED concVars
         /\ UNCHANGED fileVars
         /\ UNCHANGED dbVars

\* OAuth2Session.request and its wrappers get, post, put, delete, patch
DoSessionRequest ==
  \E auto_refresh \in {True, False}, status \in {200, 401}, method \in {"GET", "POST"} :
    LET headers == [Accept |-> "json", Authorization |-> "mine"]
        sends == GetToken(cfg, code_verifier, store, now, auto_refresh, NoResponse).req.sent
    IN \E resp \in Answers(sends) :
      \E o \in {SessionRequest(cfg, code_verifier, store, now, method, "/resource",
                              auto_refresh, headers, resp, status)} :
         /\ Sent(o)
         /\ code_verifier' = o.verifier
         /\ store' = o.store
         /\ last' = LastCall("session_request",
                             [method |-> method, auto_refresh |-> auto_refresh,
                              headers |-> headers, status |-> status], o,
                             Verdict(store, now, auto_refresh))
         /\ UNCHANGED <<cfg, now, nverif>>
         /\ UNCHANGED concVars
         /\ UNCHANGED fileVars
         /\ UNCHANGED dbVars

\* the clock moves between calls
Tick ==
  /\ now < MaxTime
  /\ now' = now + 1
  /\ last' = [NoCall EXCEPT !.op = "tick"]
  /\ UNCHANGED <<cfg, code_verifier, store, nverif, nreq, verifiersSent>>
  /\ UNCHANGED concVars
  /\ UNCHANGED fileVars
  /\ UNCHANGED dbVars

\* no storage has saved anything and the token file does not exist
NothingSaved == [memory |-> EmptyDict, file |-> EmptyDict]
FreshStorage == file = NoFile /\ saved = NothingSaved

\* database.py lines 6-7: the module's globals before any call
NoDatabase == mongo_client = None /\ db = None /\ dbCalls = <<>>

IdleCallers ==
  /\ srv = [mode |-> None, valid |-> None]
  /\ pc = [t \in 1..NCallers |-> "idle"]
  /\ ltoken = [t \in 1..NCallers |-> EmptyDict]
  /\ wire = [t \in 1..NCallers |-> [req |-> NoRequest, resp |-> NoResponse, n |-> 0]]
  /\ result = [t \in 1..NCallers |-> [err |-> NoError, ret |-> EmptyDict]]

Init ==
  /\ cfg \in Configs
  /\ code_verifier = None
  /\ store = EmptyDict
  /\ now = 0
  /\ nverif = 0
  /\ nreq = 0
  /\ verifiersSent = <<>>
  /\ last = NoCall
  /\ IdleCallers
  /\ FreshStorage
  /\ NoDatabase

Next ==
  \/ DoCreateAuthorizationUrl
  \/ DoFetchToken
  \/ DoRefreshToken
  \/ DoGetToken
  \/ DoGetAccessToken
  \/ DoSessionRequest
  \/ Tick

Spec == Init /\ [][Next]_vars

\* ========================================= one token call (SpecCall)
\* One fetch_token or refresh_token call, looked at over a wider range of
\* clients, arguments and answers than Spec draws from.  The client is in a
\* state earlier calls left it in: storage holds nothing or a record of an
\* earlier exchange, and the verifier slot is as the create_authorization_url
\* calls before it left it.
CallConfigs ==
  Configs \cup
  { ClientConfig(None, "https://tok", "https://auth", "https://cb", <<"read", "write">>),
    ClientConfig("sec", "https://tok", "https://auth", "https://cb", <<>>) }

\* the records an earlier exchange (answered at time 0) can have left
StoredRecords == {EmptyDict} \cup { DecodeToken(b, 0) : b \in TokenBodies(0) }

CallFetchCalls ==
  FetchCalls \cup
  { FetchArgs("authorization_code", "", None, None, EmptyDict),
    FetchArgs("authorization_code", "code1", None, None, [use_basic_auth |-> False]),
    FetchArgs("authorization_code", "code1", None, None, [resource |-> "api"]),
    FetchArgs("password", None, None, "pw", EmptyDict),
    FetchArgs("password", None, "", "pw", EmptyDict),
    FetchArgs("password", None, "user", "pw", [use_basic_auth |-> True]),
    FetchArgs("client_credentials", None, None, None, [use_basic_auth |-> True]),
    FetchArgs("client_credentials", None, None, None, [resource |-> "api"]),
    FetchArgs("refresh_token", None, None, None, [refresh_token |-> ""]) }

\* the answers of Spec, and: a JSON error body with an error code only, one
\* with neither code nor description, a body that is not JSON and empty, and a
\* token body under a status other than 200
CallResponses(n) ==
  Responses(n) \cup
  { HttpResponse(401, TRUE, [error |-> "invalid_client"], "{...}"),
    HttpResponse(503, TRUE, EmptyDict, "{}"),
    HttpResponse(502, FALSE, EmptyDict, ""),
    HttpResponse(201, TRUE, [access_token |-> "at" \o ToString(n)], "{...}") }

CallAnswers(sends) == IF sends THEN CallResponses(nreq + 1) ELSE {NoResponse}

\* no token call has been made yet
BeforeCall == nreq = 0 /\ last.op \in {None, "create_authorization_url"}

\* the extra parameters a caller hands to create_authorization_url: none, or
\* its own code_challenge and a prompt
UrlExtras == {EmptyDict, [code_challenge |-> "mine", prompt |-> "login"]}

CallCreateAuthorizationUrl ==
  /\ BeforeCall
  /\ \E state \in {None, "st1"}, use_pkce \in {True, False}, kwargs \in UrlExtras :
       \E o \in {CreateAuthorizationUrl(cfg, code_verifier, nverif + 1, state, use_pkce,
                                         kwargs)} :
       LET drew == o.err = NoError /\ Truthy(use_pkce)
       IN /\ drew => nverif < MaxVerifiers
          /\ nverif' = IF drew THEN nverif + 1 ELSE nverif
          /\ code_verifier' = o.verifier
          /\ last' = LastCall("create_authorization_url",
                              [state |-> state, use_pkce |-> use_pkce, kwargs |-> kwargs],
                              o, NoVerdict)
          /\ UNCHANGED <<cfg, store, now, nreq, verifiersSent>>
          /\ UNCHANGED concVars
          /\ UNCHANGED fileVars
          /\ UNCHANGED dbVars

CallFetchToken ==
  /\ BeforeCall
  /\ \E a \in CallFetchCalls :
       LET sends == FetchPrepare(cfg, code_verifier, store, a.grant_type, a.code,
                                 a.username, a.password, a.kwargs).err = NoError
       IN \E resp \in CallAnswers(sends) :
         \E o \in {FetchToken(cfg, code_verifier, store, now, a.grant_type, a.code,
                             a.username, a.password, a.kwargs, resp)} :
            /\ Sent(o)
            /\ code_verifier' = o.verifier
            /\ store' = o.store
            /\ last' = LastCall("fetch_token", a, o, NoVerdict)
            /\ UNCHANGED <<cfg, now, nverif>>
            /\ UNCHANGED concVars
            /\ UNCHANGED fileVars
            /\ UNCHANGED dbVars

CallRefreshToken ==
  /\ BeforeCall
  /\ \E rt \in {None, "rtX"} :
       LET sends == RefreshToken(cfg, code_verifier, store, now, rt, NoResponse).req.sent
       IN \E resp \in CallAnswers(sends) :
         \E o \in {RefreshToken(cfg, code_verifier, store, now, rt, resp)} :
            /\ Sent(o)
            /\ code_verifier' = o.verifier
            /\ store' = o.store
            /\ last' = LastCall("refresh_token", [refresh_token |-> rt], o, NoVerdict)
            /\ UNCHANGED <<cfg, now, nverif>>
            /\ UNCHANGED concVars
            /\ UNCHANGED fileVars
            /\ UNCHANGED dbVars

InitCall ==
  /\ cfg \in CallConfigs
  /\ code_verifier = None
  /\ store \in StoredRecords
  /\ now = 0
  /\ nverif = 0
  /\ nreq = 0
  /\ verifiersSent = <<>>
  /\ last = NoCall
  /\ IdleCallers
  /\ FreshStorage
  /\ NoDatabase

NextCall ==
  \/ CallCreateAuthorizationUrl
  \/ CallFetchToken
  \/ CallRefreshToken

SpecCall == InitCall /\ [][NextCall]_vars

\* ======================================= token storage (SpecStore)
\* The caller drives an InMemoryTokenStorage ("memory") and a FileTokenStorage
\* ("file") directly: save_token, get_token and delete_token in any order.
Storages == {"memory", "file"}

\* the records the caller saves: those of two earlier exchanges
SavedRecords == { DecodeToken(b, 0) : b \in TokenBodies(0) \cup TokenBodies(1) }

StorageCall(op, k, token, ret) ==
  [NoCall EXCEPT !.op = op, !.args = [storage |-> k, token |-> token], !.ret = ret]

StorageSaveToken(k) ==
  \E token \in SavedRecords :
    /\ IF k = "memory"
       THEN store' = SaveToken(store, token) /\ UNCHANGED file
       ELSE file' = FileSaveToken(file, token) /\ UNCHANGED store
    /\ saved' = [saved EXCEPT ![k] = token]
    /\ last' = StorageCall("storage.save_token", k, token, EmptyDict)
    /\ UNCHANGED <<cfg, code_verifier, now, nverif, nreq, verifiersSent>>
    /\ UNCHANGED concVars
    /\ UNCHANGED dbVars

StorageGetToken(k) ==
  /\ last' = StorageCall("storage.get_token", k, EmptyDict,
                         IF k = "memory" THEN LoadToken(store) ELSE FileLoadToken(file))
  /\ UNCHANGED <<cfg, code_verifier, store, now, nverif, nreq, verifiersSent>>
  /\ UNCHANGED concVars
  /\ UNCHANGED fileVars
  /\ UNCHANGED dbVars

StorageDeleteToken(k) ==
  /\ IF k = "memory"
     THEN store' = DeleteToken(store) /\ UNCHANGED file
     ELSE file' = FileDeleteToken(file) /\ UNCHANGED store
  /\ saved' = [saved EXCEPT ![k] = EmptyDict]
  /\ last' = StorageCall("storage.delete_token", k, EmptyDict, EmptyDict)
  /\ UNCHANGED <<cfg, code_verifier, now, nverif, nreq, verifiersSent>>
  /\ UNCHANGED concVars
  /\ UNCHANGED dbVars

InitStore ==
  /\ cfg = FullConfig
  /\ code_verifier = None
  /\ store = EmptyDict
  /\ now = 0
  /\ nverif = 0
  /\ nreq = 0
  /\ verifiersSent = <<>>
  /\ last = NoCall
  /\ IdleCallers
  /\ FreshStorage
  /\ NoDatabase

NextStore ==
  \/ \E k \in Storages : StorageSaveToken(k)
  \/ \E k \in Storages : StorageGetToken(k)
  \/ \E k \in Storages : StorageDeleteToken(k)

SpecStore == InitStore /\ [][NextStore]_vars

\* ============================ a storage shared with others (SpecShared)
\* The client's storage is the InMemoryTokenStorage handed to the constructor
\* (line 63), and whoever handed it over can save into it and delete from it
\* between the client's calls.
InitShared ==
  /\ cfg = FullConfig
  /\ code_verifier = None
  /\ store = EmptyDict
  /\ now = 0
  /\ nverif = 0
  /\ nreq = 0
  /\ verifiersSent = <<>>
  /\ last = NoCall
  /\ IdleCallers
  /\ FreshStorage
  /\ NoDatabase

NextShared ==
  \/ DoFetchToken
  \/ DoGetToken
  \/ StorageSaveToken("memory")
  \/ StorageDeleteToken("memory")

SpecShared == InitShared /\ [][NextShared]_vars

\* ====================================== concurrent callers (SpecConc)
\* NCallers threads share one OAuth2Client and its storage; each runs
\* get_token(auto_refresh=True) once.  The client takes no lock, so the
\* threads interleave between any two of: the load (line 244), the expiry
\* check (249), the building and sending of the refresh request (251, 232,
\* 132-198, with its own load at 179), the endpoint's answer, and the
\* handling of the answer (200-220).
Callers == 1..NCallers

\* the record in storage when the callers arrive: expired, with a refresh token
StaleToken ==
  [access_token |-> "at0", refresh_token |-> "rt0", expires_in |-> 11, expires_at |-> 5]

\* the endpoint's 200 body for the n-th request: a new long-lived token pair
FreshBody(n) ==
  [access_token |-> "at" \o ToString(n), refresh_token |-> "rt" \o ToString(n),
   expires_in |-> 11]

\* a 200 body whose token is inside the expiry buffer on arrival
ShortLivedBody(n) ==
  [access_token |-> "at" \o ToString(n), refresh_token |-> "rt" \o ToString(n),
   expires_in |-> 5]

InvalidGrant ==
  HttpResponse(400, TRUE,
               [error |-> "invalid_grant", error_description |-> "refresh token not valid"],
               "{...}")

\* The endpoint.  In mode "rotating" a refresh token is good for one use: the
\* request must carry the one refresh token the endpoint currently accepts, and
\* the answer replaces it.  In mode "any" the endpoint answers as it likes.
\* Gives the possible <<response, refresh token accepted afterwards>>.
EndpointAnswers(s, req, n) ==
  LET body == FormBody(req.data)
      good == "refresh_token" \in DOMAIN body /\ body["refresh_token"] = s.valid
      ok   == <<HttpResponse(200, TRUE, FreshBody(n), "{...}"), "rt" \o ToString(n)>>
      short == <<HttpResponse(200, TRUE, ShortLivedBody(n), "{...}"), "rt" \o ToString(n)>>
      bad  == <<InvalidGrant, s.valid>>
  IN IF s.mode = "rotating" THEN (IF good THEN {ok} ELSE {bad}) ELSE {ok, short, bad}

AfterRefreshRecheck(token, t) == IF IsTokenExpired(token, t) THEN "refresh" ELSE "done"

\* line 251: get_token hands back what refresh_token() returned, without
\* looking at its expiry
AfterRefresh(token, t) == "done"

Done(t, err, ret) ==
  /\ pc' = [pc EXCEPT ![t] = "done"]
  /\ result' = [result EXCEPT ![t] = [err |-> err, ret |-> ret]]

\* line 244
CLoad(t) ==
  /\ pc[t] = "idle"
  /\ ltoken' = [ltoken EXCEPT ![t] = LoadToken(store)]
  /\ pc' = [pc EXCEPT ![t] = "check"]
  /\ UNCHANGED <<srv, wire, result>>
  /\ UNCHANGED seqVars
  /\ UNCHANGED fileVars
  /\ UNCHANGED dbVars

\* lines 246-249 and 255
CCheck(t) ==
  /\ pc[t] = "check"
  /\ IF ltoken[t] = EmptyDict
     THEN Done(t, Raise("TokenError", "No token available"), EmptyDict)
     ELSE IF IsTokenExpired(ltoken[t], now)
     THEN pc' = [pc EXCEPT ![t] = "refresh"] /\ UNCHANGED result
     ELSE Done(t, NoError, ltoken[t])
  /\ UNCHANGED <<srv, ltoken, wire>>
  /\ UNCHANGED seqVars
  /\ UNCHANGED fileVars
  /\ UNCHANGED dbVars

\* lines 251-253, 232, 132-198: refresh_token() builds the request from the
\* storage as it is now, and requests.post sends it
CSend(t) ==
  /\ pc[t] = "refresh"
  /\ LET p == FetchPrepare(cfg, code_verifier, store, "refresh_token", None, None, None,
                           [refresh_token |-> None])
     IN IF p.err # NoError
        THEN /\ Done(t, Raise("TokenError", "Failed to refresh token: " \o p.err.msg),
                     EmptyDict)
             /\ UNCHANGED <<wire, nreq>>
        ELSE /\ nreq' = nreq + 1
             /\ wire' = [wire EXCEPT ![t] =
                           [req |-> [sent |-> TRUE, data |-> p.data, auth |-> p.auth],
                            resp |-> NoResponse, n |-> nreq + 1]]
             /\ pc' = [pc EXCEPT ![t] = "wait"]
             /\ UNCHANGED result
  /\ UNCHANGED <<srv, ltoken>>
  /\ UNCHANGED <<cfg, code_verifier, store, now, nverif, verifiersSent, last>>
  /\ UNCHANGED fileVars
  /\ UNCHANGED dbVars

\* the token endpoint answers the request of caller t
Endpoint(t) ==
  /\ pc[t] = "wait"
  /\ \E a \in EndpointAnswers(srv, wire[t].req, wire[t].n) :
       /\ wire' = [wire EXCEPT ![t].resp = a[1]]
       /\ srv' = [srv EXCEPT !.valid = a[2]]
  /\ pc' = [pc EXCEPT ![t] = "recv"]
  /\ UNCHANGED <<ltoken, result>>
  /\ UNCHANGED seqVars
  /\ UNCHANGED fileVars
  /\ UNCHANGED dbVars

\* lines 200-220 and 252-255
CRecv(t) ==
  /\ pc[t] = "recv"
  /\ LET resp == wire[t].resp
     IN IF resp.status # 200
        THEN /\ Done(t, Raise("TokenError", "Failed to refresh token: "
                                               \o TokenEndpointError(resp).msg),
                     EmptyDict)
             /\ UNCHANGED store
        ELSE LET token_data == DecodeToken(resp.json, now)
             IN /\ store' = SaveToken(store, token_data)
                /\ pc' = [pc EXCEPT ![t] = AfterRefresh(token_data, now)]
                /\ result' = [result EXCEPT ![t] = [err |-> NoError, ret |-> token_data]]
  /\ UNCHANGED <<srv, ltoken, wire>>
  /\ UNCHANGED <<cfg, code_verifier, now, nverif, nreq, verifiersSent, last>>
  /\ UNCHANGED fileVars
  /\ UNCHANGED dbVars

InitConc ==
  /\ cfg = FullConfig
  /\ code_verifier = None
  /\ store = StaleToken
  /\ now = 0
  /\ nverif = 0
  /\ nreq = 0
  /\ verifiersSent = <<>>
  /\ last = NoCall
  /\ srv \in { [mode |-> m, valid |-> StaleToken["refresh_token"]] : m \in {"rotating", "any"} }
  /\ pc = [t \in Callers |-> "idle"]
  /\ ltoken = [t \in Callers |-> EmptyDict]
  /\ wire = [t \in Callers |-> [req |-> NoRequest, resp |-> NoResponse, n |-> 0]]
  /\ result = [t \in Callers |-> [err |-> NoError, ret |-> EmptyDict]]
  /\ FreshStorage
  /\ NoDatabase

NextConc ==
  \/ \E t \in Callers : CLoad(t)
  \/ \E t \in Callers : CCheck(t)
  \/ \E t \in Callers : CSend(t)
  \/ \E t \in Callers : Endpoint(t)
  \/ \E t \in Callers : CRecv(t)

SpecConc == InitConc /\ [][NextConc]_vars

AllDone == \A t \in Callers : pc[t] = "done"

\* ================================= the MongoDB connection (SpecDb)
\* app/db/database.py: two module globals and three functions.  The two
\* coroutines contain no await, so each runs to its end once started.
MaxDbCalls == 6

\* the n-th AsyncIOMotorClient(settings.MONGO_URI) and its
\* [settings.MONGO_DB] database
MotorClient(n) == "client" \o ToString(n)
Database(client) == client \o "[MONGO_DB]"

Connects(calls) == Cardinality({ i \in 1..Len(calls) : calls[i] = "connect_to_mongo" })

DbCall(op, ret) == [NoCall EXCEPT !.op = op, !.ret = ret]

notDb == <<cfg, code_verifier, store, now, nverif, nreq, verifiersSent>>

\* lines 9-13
ConnectToMongo ==
  /\ Len(dbCalls) < MaxDbCalls
  /\ mongo_client' = MotorClient(Connects(dbCalls) + 1)
  /\ db' = Database(mongo_client')
  /\ dbCalls' = Append(dbCalls, "connect_to_mongo")
  /\ last' = DbCall("connect_to_mongo", None)
  /\ UNCHANGED notDb
  /\ UNCHANGED concVars
  /\ UNCHANGED fileVars

DbAfterCloseKept(client, d) == d

\* lines 18-20: db is reset when there is a client to close
DbAfterClose(client, d) == IF client # None THEN None ELSE d

\* lines 15-21; mongo_client keeps naming the closed client
CloseMongoConnection ==
  /\ Len(dbCalls) < MaxDbCalls
  /\ db' = DbAfterClose(mongo_client, db)
  /\ dbCalls' = Append(dbCalls, "close_mongo_connection")
  /\ last' = DbCall("close_mongo_connection", None)
  /\ UNCHANGED mongo_client
  /\ UNCHANGED notDb
  /\ UNCHANGED concVars
  /\ UNCHANGED fileVars

\* lines 23-24
GetDatabase ==
  /\ last' = DbCall("get_database", db)
  /\ UNCHANGED dbVars
  /\ UNCHANGED notDb
  /\ UNCHANGED concVars
  /\ UNCHANGED fileVars

InitDb ==
  /\ cfg = FullConfig
  /\ code_verifier = None
  /\ store = EmptyDict
  /\ now = 0
  /\ nverif = 0
  /\ nreq = 0
  /\ verifiersSent = <<>>
  /\ last = NoCall
  /\ IdleCallers
  /\ FreshStorage
  /\ NoDatabase

NextDb ==
  \/ ConnectToMongo
  \/ CloseMongoConnection
  \/ GetDatabase

SpecDb == InitDb /\ [][NextDb]_vars

\* ============================================================ properties
\* what the properties read off `last`
IsOp(l, ops) == l.op \in ops
Ok(l) == l.err = NoError
Grant(l) == IF l.req.sent THEN l.req.data["grant_type"] ELSE None
Body(l) == FormBody(l.req.data)
AuthCodeRequest(l) == l.req.sent /\ Grant(l) = "authorization_code"
RefreshRequest(l) == l.req.sent /\ Grant(l) = "refresh_token"

\* the refresh token the caller supplied to the call, None if it supplied none
SuppliedRefreshToken(l) ==
  IF l.op = "fetch_token" THEN Get(l.args.kwargs, "refresh_token", None)
  ELSE IF l.op = "refresh_token" THEN l.args.refresh_token
  ELSE None

\* the expiry policy as specified: never without expires_at, else
\* expires_at <= now + 10
PolicyExpired(token, t) ==
  "expires_at" \in DOMAIN token /\ token["expires_at"] <= t + 10

NoDuplicates(seq) == \A i, j \in 1..Len(seq) : i # j => seq[i] # seq[j]

\* the record a 200 response with body `json` received at time t stands for
ExpectedRecord(json, t) ==
  [k \in DOMAIN json \cup (IF "expires_in" \in DOMAIN json THEN {"expires_at"} ELSE {}) |->
     IF k \in DOMAIN json THEN json[k] ELSE t + json["expires_in"]]

\* C1: N >= 2 callers inside get_token(auto_refresh=true) on an expired stored
\* token send exactly one refresh request between them, under every
\* interleaving: never a second one, and one once all have finished.
C1_ExactlyOneRefresh == nreq <= 1 /\ (AllDone => nreq = 1)

\* C2: against an endpoint that invalidates a refresh token after its first
\* use, every concurrent caller that found the expired token returns
\* successfully, with the record the first refresh obtained.
C2_AllCallersShareFirstRefresh ==
  srv.mode = "rotating" =>
    \A t \in Callers :
      pc[t] = "done" =>
        /\ result[t].err = NoError
        /\ result[t].ret = ExpectedRecord(FreshBody(1), now)

\* C3: create_authorization_url(use_pkce=true) leaves a fresh verifier in the
\* slot; an authorization_code token request carries the verifier in the slot
\* and empties the slot, and carries none when the slot is empty; no verifier
\* goes out in two token requests.
C3_Step ==
  /\ (last'.op = "create_authorization_url" /\ Ok(last') /\ last'.args.use_pkce = True)
       => Truthy(code_verifier') /\ \A i \in 1..Len(verifiersSent) :
                                       verifiersSent[i] # code_verifier'
  /\ (last'.op = "fetch_token" /\ AuthCodeRequest(last'))
       => IF Truthy(code_verifier)
          THEN /\ "code_verifier" \in DOMAIN Body(last')
               /\ Body(last')["code_verifier"] = code_verifier
               /\ code_verifier' = None
          ELSE "code_verifier" \notin DOMAIN Body(last')
  /\ NoDuplicates(verifiersSent')

C3_VerifierSentOnce == [][C3_Step]_vars

C3_Witness ==
  /\ last.op = "fetch_token" /\ AuthCodeRequest(last)
  /\ "code_verifier" \notin DOMAIN Body(last)
  /\ verifiersSent = <<GenerateCodeVerifier(1)>>
  /\ nreq = 2

\* C4: the verifier slot goes from set to empty only in a step that is an
\* authorization_code fetch_token; fetch_token with another grant type,
\* refresh_token, get_token, get_access_token and OAuth2Session.request leave
\* the slot as it was.
C4_Step ==
  /\ (Truthy(code_verifier) /\ ~Truthy(code_verifier'))
       => last'.op = "fetch_token" /\ last'.args.grant_type = "authorization_code"
  /\ (\/ IsOp(last', {"refresh_token", "get_token", "get_access_token", "session_request"})
      \/ (last'.op = "fetch_token" /\ last'.args.grant_type # "authorization_code"))
       => code_verifier' = code_verifier

C4_OnlyAuthCodeConsumes == [][C4_Step]_vars

C4_Witness ==
  /\ Truthy(code_verifier)
  /\ last.op = "session_request" /\ RefreshRequest(last) /\ Ok(last)

\* C5: the slot holds nothing or the verifier drawn last; building a URL with
\* PKCE always draws a new one into the slot, replacing the one there; and a
\* verifier that goes out in a token request is the one drawn last, so a
\* verifier replaced before its exchange is never sent.
C5_Step ==
  /\ (last'.op = "create_authorization_url" /\ Ok(last') /\ last'.args.use_pkce = True)
       => nverif' = nverif + 1 /\ code_verifier' = GenerateCodeVerifier(nverif')
  /\ code_verifier' \in {None, GenerateCodeVerifier(nverif')}
  /\ verifiersSent' # verifiersSent
       => /\ verifiersSent' = Append(verifiersSent, GenerateCodeVerifier(nverif))
          /\ nverif' = nverif

C5_OneOutstandingVerifier == [][C5_Step]_vars

C5_Witness ==
  /\ nverif = 2
  /\ verifiersSent = <<GenerateCodeVerifier(2)>>
  /\ last.op = "fetch_token" /\ AuthCodeRequest(last)

\* C6: a refresh_token request made without a caller-supplied refresh token
\* carries the refresh_token of the record in the store; one made with a
\* caller-supplied refresh token carries that one.
C6_Step ==
  RefreshRequest(last') =>
    /\ "refresh_token" \in DOMAIN Body(last')
    /\ Body(last')["refresh_token"] =
         (IF Truthy(SuppliedRefreshToken(last'))
          THEN SuppliedRefreshToken(last')
          ELSE store["refresh_token"])

C6_RefreshRequestCarriesToken == [][C6_Step]_vars

\* C7: get_token(auto_refresh=true) on a stored record that is not expired
\* returns that record and sends no token request; on an expired one, if it
\* returns, it made one refresh request, and what it returns is the record of
\* the response, which is what the store then holds.
C7_Step ==
  (last'.op = "get_token" /\ last'.args.auto_refresh = True /\ store # EmptyDict) =>
    IF ~PolicyExpired(store, now)
    THEN /\ Ok(last') /\ last'.ret = store
         /\ ~last'.req.sent /\ nreq' = nreq /\ store' = store
    ELSE Ok(last') =>
           /\ RefreshRequest(last') /\ nreq' = nreq + 1
           /\ last'.resp.status = 200
           /\ last'.ret = ExpectedRecord(last'.resp.json, now)
           /\ store' = last'.ret

C7_GetTokenRefreshesWhenExpired == [][C7_Step]_vars

C7_Witness ==
  /\ last.op = "get_token" /\ Ok(last) /\ RefreshRequest(last)
  /\ last.expired = True
  /\ store = last.ret

\* C8: after a successful fetch_token or refresh_token the store holds exactly
\* the returned record: the fields of the response and the derived
\* expires_at, and nothing left over from the record before.
C8_StoreReplacedWholesale ==
  (IsOp(last, {"fetch_token", "refresh_token"}) /\ Ok(last)) =>
    /\ last.resp.status = 200
    /\ last.ret = ExpectedRecord(last.resp.json, now)
    /\ LoadToken(store) = last.ret

C8_Witness ==
  /\ last.op = "refresh_token" /\ Ok(last)
  /\ last.args.refresh_token = None
  /\ "refresh_token" \notin DOMAIN store

\* C9: the answer of the expiry check is "not expired" for a record without
\* expires_at, and otherwise "expired" exactly when expires_at <= now + 10.
C9_Step ==
  last'.expired # NoVerdict =>
    last'.expired = (IF "expires_at" \notin DOMAIN store THEN False
                     ELSE IF store["expires_at"] <= now + 10 THEN True
                     ELSE False)

C9_ExpiryPolicy == [][C9_Step]_vars

C9_Witness ==
  /\ last.op = "get_token" /\ last.expired = True
  /\ last.err.type = "TokenError"
  /\ "expires_at" \in DOMAIN store /\ store["expires_at"] = now + 10

\* C10: a response received at time T with expires_in = n and no expires_at is
\* stored with expires_at = T + n, one that carries expires_at keeps it; with
\* n > 10 the record is not expired at T, and a stored record is expired from
\* the moment the clock reaches expires_at - 10.
C10_DerivedExpiry ==
  /\ (last.req.sent /\ Ok(last)) =>
       LET json == last.resp.json
       IN /\ ("expires_in" \in DOMAIN json /\ "expires_at" \notin DOMAIN json)
               => /\ store["expires_at"] = now + json["expires_in"]
                  /\ json["expires_in"] > 10 => ~IsTokenExpired(store, now)
          /\ "expires_at" \in DOMAIN json => store["expires_at"] = json["expires_at"]
  /\ "expires_at" \in DOMAIN store
       => (IsTokenExpired(store, now) <=> now >= store["expires_at"] - 10)

C10_Witness ==
  /\ last.op = "fetch_token" /\ Ok(last)
  /\ "expires_in" \in DOMAIN last.resp.json
  /\ "expires_at" \notin DOMAIN last.resp.json
  /\ "expires_at" \in DOMAIN store
  /\ now = 1 /\ store["expires_at"] = 12
  /\ ~IsTokenExpired(store, now)

\* ------------------------------------------------------- error kinds
\* The source has two exception classes, OAuth2Error and its subclass
\* TokenError; which kind of failure an exception stands for is in its message.
\* What an `except` clause can tell apart is the class, `type` here.

\* the exception get_token raises on an empty store
NoTokenFailure == GetToken(FullConfig, None, EmptyDict, 0, True, NoResponse).err

\* the exception of the same refresh exchange made by a direct fetch_token call
DirectFailure(l, st, cv, t) ==
  FetchToken(cfg, cv, st, t, "refresh_token", None, None, None, EmptyDict, l.resp).err

\* C11: get_token on an empty store fails with the no-token error
\* (TokenError "No token available" in the source), with auto_refresh true and
\* with auto_refresh false, and sends no token request.
C11_Step ==
  (last'.op = "get_token" /\ LoadToken(store) = EmptyDict) =>
    /\ last'.err = Raise("TokenError", "No token available")
    /\ ~last'.req.sent /\ nreq' = nreq
    /\ store' = store

C11_NoTokenFails == [][C11_Step]_vars

C11_Witness ==
  /\ last.op = "get_token" /\ last.args.auto_refresh = True
  /\ last.err = NoTokenFailure
  /\ store = EmptyDict /\ nreq = 1

\* C12: when the refresh inside get_token fails (for a reason other than the
\* transport), get_token raises the refresh error, and the kind of that error
\* is neither the kind raised on an empty store nor the kind a direct
\* fetch_token raises for the same failed exchange.
C12_Step ==
  (/\ last'.op = "get_token" /\ last'.expired = True
   /\ ~Ok(last') /\ last'.resp.kind # "transport") =>
    /\ last'.err.msg = "Failed to refresh token: "
                         \o RefreshToken(cfg, code_verifier, store, now, None, last'.resp).err.msg
    /\ last'.err.type # NoTokenFailure.type
    /\ last'.err.type # DirectFailure(last', store, code_verifier, now).type

C12_RefreshErrorDistinct == [][C12_Step]_vars

\* `sub in s` for strings
Contains(s, sub) ==
  \E i \in 1..(Len(s) - Len(sub) + 1) : SubSeq(s, i, i + Len(sub) - 1) = sub

\* C13: a token-endpoint response with a non-success status makes fetch_token
\* fail with the exchange error (TokenError in the source), whose message holds
\* the status and the provider's error_description, else (none given) its
\* error code, else (body not JSON) the raw body; status 400 with
\* error_description "bad code" gives a message with "bad code" and 400.
C13_ExchangeErrorCarriesCause ==
  (/\ last.op = "fetch_token" /\ last.req.sent
   /\ last.resp.kind = "http" /\ last.resp.status \notin 200..299) =>
    LET r == last.resp
        m == last.err.msg
        described == r.parses /\ "error_description" \in DOMAIN r.json
        coded == r.parses /\ "error" \in DOMAIN r.json
    IN /\ last.err.type = "TokenError"
       /\ Contains(m, "(HTTP " \o ToString(r.status) \o ")")
       /\ described => Contains(m, r.json["error_description"])
       /\ (described /\ coded) => ~Contains(m, r.json["error"])
       /\ (coded /\ ~described) => Contains(m, r.json["error"])
       /\ (~r.parses /\ r.text # "") => Contains(m, r.text)
       /\ (r.status = 400 /\ described /\ r.json["error_description"] = "bad code")
            => Contains(m, "bad code") /\ Contains(m, "400")

C13_Witness ==
  /\ last.op = "fetch_token" /\ last.args.grant_type = "authorization_code"
  /\ last.resp.status = 400 /\ last.resp.json = [error |-> "invalid_grant",
                                                  error_description |-> "bad code"]
  /\ last.err = Raise("TokenError", "Error fetching token: bad code (HTTP 400)")

\* C14: a refresh_token-grant fetch_token (direct, or through refresh_token())
\* for which the caller supplies no refresh token, on a store that holds no
\* record or a record without refresh_token, fails with the invalid-request
\* error (OAuth2Error "Refresh token required" in the source; the missing
\* token_url is reported first) and sends no token request.
C14_Step ==
  (/\ IsOp(last', {"fetch_token", "refresh_token"})
   /\ last'.op = "fetch_token" => last'.args.grant_type = "refresh_token"
   /\ ~Truthy(SuppliedRefreshToken(last'))
   /\ (LoadToken(store) = EmptyDict \/ "refresh_token" \notin DOMAIN LoadToken(store))) =>
    /\ last'.err.type = "OAuth2Error"
    /\ Truthy(cfg.token_url) => last'.err.msg = "Refresh token required"
    /\ ~last'.req.sent /\ nreq' = nreq
    /\ store' = store

C14_NoRefreshTokenFails == [][C14_Step]_vars

C14_Witness ==
  /\ last.op = "fetch_token" /\ last.args.grant_type = "refresh_token"
  /\ last.args.kwargs = EmptyDict
  /\ store # EmptyDict /\ "refresh_token" \notin DOMAIN store
  /\ last.err = Raise("OAuth2Error", "Refresh token required")
  /\ nreq = 0

\* C15: fetch_token fails with the invalid-request error (OAuth2Error in the
\* source; the missing token_url is reported first) and sends no token request
\* when the grant is authorization_code and code is missing, or the grant is
\* password and username or password is missing; the missing-code failure
\* leaves the verifier slot as it was.
C15_Step ==
  /\ (/\ last'.op = "fetch_token" /\ last'.args.grant_type = "authorization_code"
      /\ ~Truthy(last'.args.code)) =>
       /\ last'.err.type = "OAuth2Error"
       /\ Truthy(cfg.token_url) => last'.err.msg = "Authorization code required"
       /\ ~last'.req.sent /\ nreq' = nreq
       /\ code_verifier' = code_verifier
  /\ (/\ last'.op = "fetch_token" /\ last'.args.grant_type = "password"
      /\ (~Truthy(last'.args.username) \/ ~Truthy(last'.args.password))) =>
       /\ last'.err.type = "OAuth2Error"
       /\ Truthy(cfg.token_url) =>
            last'.err.msg = "Username and password required for password grant"
       /\ ~last'.req.sent /\ nreq' = nreq

C15_MissingParameterFails == [][C15_Step]_vars

C15_Witness ==
  /\ last.op = "fetch_token" /\ last.args.grant_type = "authorization_code"
  /\ last.args.code = None
  /\ last.err = Raise("OAuth2Error", "Authorization code required")
  /\ code_verifier = GenerateCodeVerifier(1)
  /\ nreq = 0

\* the exception fetch_token raises for a missing required parameter
InvalidRequestFailure ==
  FetchPrepare(FullConfig, None, EmptyDict, "authorization_code", None, None, None,
               EmptyDict).err

\* C16: create_authorization_url fails with the configuration error when
\* auth_url or redirect_uri is not configured, leaving the verifier slot as it
\* was; fetch_token fails with the configuration error when token_url is not
\* configured, whatever its parameters, without touching the verifier slot and
\* without a token request; and the kind of the configuration error is not
\* the kind of the invalid-request error.
C16_Step ==
  /\ (/\ last'.op = "create_authorization_url"
      /\ (~Truthy(cfg.auth_url) \/ ~Truthy(cfg.redirect_uri))) =>
       /\ last'.err.msg \in {"Authorization URL not provided", "Redirect URI not provided"}
       /\ code_verifier' = code_verifier /\ nverif' = nverif
       /\ last'.err.type # InvalidRequestFailure.type
  /\ (last'.op = "fetch_token" /\ ~Truthy(cfg.token_url)) =>
       /\ last'.err.msg = "Token URL not provided"
       /\ code_verifier' = code_verifier
       /\ ~last'.req.sent /\ nreq' = nreq
       /\ last'.err.type # InvalidRequestFailure.type

C16_ConfigurationErrorDistinct == [][C16_Step]_vars

\* C17: get_token(auto_refresh=false) on a stored record returns that record
\* as it is, also when it is expired, sends no token request and leaves the
\* store unchanged; on an empty store it sends nothing and changes nothing
\* either.
C17_Step ==
  (last'.op = "get_token" /\ last'.args.auto_refresh = False) =>
    /\ ~last'.req.sent /\ nreq' = nreq
    /\ store' = store
    /\ LoadToken(store) # EmptyDict => Ok(last') /\ last'.ret = LoadToken(store)

C17_NoRefreshWhenDisabled == [][C17_Step]_vars

C17_Witness ==
  /\ last.op = "get_token" /\ last.args.auto_refresh = False
  /\ Ok(last) /\ last.ret = store
  /\ PolicyExpired(store, now)

\* the parameters section 4.3 of the specification gives the token request of
\* the call l, made with verifier slot cv and storage slot st (redirect_uri
\* for a client that has one configured)
GrantParameters(l, c, cv, st) ==
  LET g == Grant(l)
      supplied == SuppliedRefreshToken(l)
      scope == IF Len(c.scope) > 0 THEN [scope |-> JoinScope(c.scope)] ELSE EmptyDict
  IN IF g = "authorization_code"
     THEN Update([code |-> l.args.code, redirect_uri |-> c.redirect_uri],
                 IF Truthy(cv) THEN [code_verifier |-> cv] ELSE EmptyDict)
     ELSE IF g = "password"
     THEN Update([username |-> l.args.username, password |-> l.args.password], scope)
     ELSE IF g = "client_credentials" THEN scope
     ELSE [refresh_token |-> IF Truthy(supplied) THEN supplied
                             ELSE Get(LoadToken(st), "refresh_token", None)]

\* the extra parameters of the call l, the refresh token apart
ExtraParameters(l) ==
  IF l.op = "fetch_token" THEN Without(l.args.kwargs, "refresh_token") ELSE EmptyDict

\* C18: the body of every token request fetch_token sends (called directly or
\* through refresh_token()) is exactly grant_type, client_id, the parameters
\* of its grant type, the client secret unless it goes in the Basic header,
\* and the caller's extra parameters.
C18_Step ==
  (/\ IsOp(last', {"fetch_token", "refresh_token"}) /\ last'.req.sent
   /\ Truthy(cfg.redirect_uri)) =>
    Body(last') =
      Update(Update(Update([grant_type |-> Grant(last'), client_id |-> cfg.client_id],
                           IF Truthy(cfg.client_secret) /\ last'.req.auth = <<>>
                           THEN [client_secret |-> cfg.client_secret] ELSE EmptyDict),
                    GrantParameters(last', cfg, code_verifier, store)),
             ExtraParameters(last'))

C18_ExactParameterSet == [][C18_Step]_vars

\* the call asked for HTTP Basic authentication with the extra-params flag
BasicRequested(l) ==
  l.op = "fetch_token" /\ Truthy(Get(l.args.kwargs, "use_basic_auth", False))

\* C19: with a client secret configured, a token request carries the secret
\* in the Basic credentials (client_id, client_secret) and not in the body
\* when the grant is authorization_code and the flag asks for Basic; in every
\* other case it carries the secret in the body and no Basic credentials.
C19_SecretInOnePlace ==
  (/\ IsOp(last, {"fetch_token", "refresh_token"}) /\ last.req.sent
   /\ Truthy(cfg.client_secret)) =>
    LET inHeader == last.req.auth = <<cfg.client_id, cfg.client_secret>>
        inBody == /\ "client_secret" \in DOMAIN Body(last)
                  /\ Body(last)["client_secret"] = cfg.client_secret
        basic == Grant(last) = "authorization_code" /\ BasicRequested(last)
    IN /\ inHeader <=> basic
       /\ inBody <=> ~basic
       /\ ~inHeader => last.req.auth = <<>>
       /\ ~inBody => "client_secret" \notin DOMAIN Body(last)

C19_Witness ==
  /\ last.op = "fetch_token" /\ last.req.sent
  /\ Grant(last) = "authorization_code" /\ BasicRequested(last)
  /\ last.req.auth = <<"cid", "sec">>
  /\ "client_secret" \notin DOMAIN Body(last)

\* C20: for the in-memory and for the file-backed storage alike, get_token
\* returns the record of the last save_token if no delete_token came after
\* it, and none otherwise (so none before any save, and none from a missing
\* file), without raising and without changing what is stored; delete_token
\* with nothing stored changes nothing and does not raise.
C20_Step ==
  /\ last'.op = "storage.get_token" =>
       /\ Ok(last') /\ last'.ret = saved[last'.args.storage]
       /\ store' = store /\ file' = file
  /\ last'.op = "storage.delete_token" =>
       /\ Ok(last')
       /\ saved[last'.args.storage] = EmptyDict => store' = store /\ file' = file

C20_SingleSlot == [][C20_Step]_vars

C20_Witness ==
  /\ last.op = "storage.get_token" /\ last.args.storage = "file"
  /\ file.exists /\ last.ret = saved["file"]
  /\ "expires_at" \in DOMAIN last.ret
  /\ saved["memory"] # EmptyDict /\ saved["memory"] # saved["file"]

\* C21: get_token works on what the store holds when it is called: on an
\* empty store it fails with the no-token error, and unless it refreshes it
\* returns the stored record; so right after the record was deleted from
\* outside the client it fails with the no-token error, and right after the
\* record was replaced from outside it returns the replacement.
C21_Step ==
  last'.op = "get_token" =>
    LET refreshes == last'.args.auto_refresh = True /\ PolicyExpired(store, now)
    IN /\ LoadToken(store) = EmptyDict => last'.err = NoTokenFailure
       /\ (LoadToken(store) # EmptyDict /\ ~refreshes)
            => Ok(last') /\ last'.ret = LoadToken(store)
       /\ last.op = "storage.delete_token" => last'.err = NoTokenFailure
       /\ (last.op = "storage.save_token" /\ ~refreshes)
            => Ok(last') /\ last'.ret = last.args.token

C21_ReadsThroughStore == [][C21_Step]_vars

C21_Witness ==
  /\ last.op = "get_token" /\ Ok(last)
  /\ nreq = MaxRequests
  /\ last.ret = saved["memory"] /\ last.ret["access_token"] = "at0"

\* C22: the resource request of OAuth2Session.request carries
\* Authorization: <token_type> <access_token> of the record get_token
\* returned for that call, with Bearer where the record has no token_type:
\* the stored record when no refresh took place, the refreshed record after
\* an automatic refresh; the caller's own Authorization header is replaced
\* and every other header of the caller goes out as given, under the method
\* the caller named.
C22_Step ==
  (last'.op = "session_request" /\ Ok(last')) =>
    LET record == IF last'.req.sent THEN store' ELSE store
        scheme == IF "token_type" \in DOMAIN record THEN record["token_type"] ELSE "Bearer"
        out    == last'.ret.request
        given  == last'.args.headers
    IN /\ last'.req.sent => record = ExpectedRecord(last'.resp.json, now)
       /\ out.headers["Authorization"] = scheme \o " " \o record["access_token"]
       /\ DOMAIN out.headers = DOMAIN given \cup {"Authorization"}
       /\ \A k \in DOMAIN given \ {"Authorization"} : out.headers[k] = given[k]
       /\ out.method = last'.args.method

C22_AuthorizationFromReturnedRecord == [][C22_Step]_vars

C22_Witness ==
  /\ last.op = "session_request" /\ Ok(last) /\ RefreshRequest(last)
  /\ last.args.headers["Authorization"] = "mine"
  /\ last.ret.request.headers["Authorization"] = "mac at2"
  /\ last.ret.request.headers["Accept"] = "json"

\* C23: OAuth2Session.request does not look at the status of the resource
\* response: whatever the status (200 or 401), the response comes back as
\* received, a token request goes out only when auto_refresh is on and the
\* stored record was expired before the resource request, and the store
\* changes only through that refresh, never after the resource request.
C23_Step ==
  last'.op = "session_request" =>
    /\ last'.req.sent => (last'.args.auto_refresh = True /\ PolicyExpired(store, now))
    /\ ~last'.req.sent => (store' = store /\ nreq' = nreq)
    /\ last'.req.sent => nreq' = nreq + 1
    /\ Ok(last') =>
         /\ last'.ret.response = [status |-> last'.args.status]
         /\ last'.req.sent => store' = ExpectedRecord(last'.resp.json, now)

C23_StatusNotInterpreted == [][C23_Step]_vars

C23_Witness ==
  /\ last.op = "session_request" /\ Ok(last)
  /\ last.ret.response.status = 401
  /\ ~last.req.sent /\ nreq = 1
  /\ last.ret.request.headers["Authorization"] = "Bearer at1"

\* C24: no call sends a second token request: every request counted is the
\* one request of a different get_token call, and a call that has received
\* the endpoint's answer ends there, returning or failing, also when the
\* record it got is already inside the expiry buffer.
C24_Step ==
  /\ nreq' = Cardinality({ t \in Callers : wire'[t].req.sent })
  /\ \A t \in Callers :
       /\ (pc[t] = "recv" /\ pc'[t] # "recv") => pc'[t] = "done"
       /\ pc[t] = "done" => (pc'[t] = "done" /\ wire'[t] = wire[t])
       /\ wire[t].req.sent => wire'[t].n = wire[t].n

C24_NeverRetries == [][C24_Step]_vars

C24_Witness ==
  /\ AllDone
  /\ \E t \in Callers :
       /\ wire[t].req.sent
       /\ result[t].err = NoError
       /\ result[t].ret["expires_in"] <= ExpiryBuffer
       /\ IsTokenExpired(result[t].ret, now)

\* C25: when the token request dies in the transport, fetch_token and
\* refresh_token fail with the transport's own exception, and so does
\* get_token (and what calls it) when its automatic refresh hits the
\* failure: the error is neither a TokenError nor an OAuth2Error and is not
\* given the refresh-failure wrapping.
C25_Step ==
  (/\ IsOp(last', {"fetch_token", "refresh_token", "get_token",
                   "get_access_token", "session_request"})
   /\ last'.req.sent /\ last'.resp = TransportFailure)
  => /\ last'.err = Raise("ConnectionError", "transport")
     /\ last'.err.type \notin {"OAuth2Error", "TokenError"}
     /\ ~Contains(last'.err.msg, "Failed to refresh token")

C25_TransportFailurePropagates == [][C25_Step]_vars

C25_Witness ==
  /\ last.op = "get_token" /\ RefreshRequest(last)
  /\ last.resp = TransportFailure
  /\ last.err.type = "ConnectionError"

\* C26: get_database() returns a database handle exactly when the most
\* recent connect_to_mongo / close_mongo_connection call was
\* connect_to_mongo, and then it is the database of the client that call
\* created; it returns none before the first connect and after every close.
C26_HandleIffLastCallConnected ==
  last.op = "get_database" =>
    LET connected == dbCalls # <<>> /\ dbCalls[Len(dbCalls)] = "connect_to_mongo"
    IN /\ last.ret # None <=> connected
       /\ connected => last.ret = Database(MotorClient(Connects(dbCalls)))

C26_Witness ==
  /\ last.op = "get_database" /\ last.ret = None
  /\ Len(dbCalls) >= 3
  /\ dbCalls[1] = "connect_to_mongo"
  /\ dbCalls[Len(dbCalls) - 1] = "close_mongo_connection"
  /\ dbCalls[Len(dbCalls)] = "close_mongo_connection"

\* C27: a fetch_token, refresh_token or get_token call that fails, whatever
\* the failure (missing configuration, missing parameter, no token, a
\* non-200 answer, a transport failure), leaves the stored record exactly as
\* it was before the call.
C27_Step ==
  (IsOp(last', {"fetch_token", "refresh_token", "get_token"}) /\ ~Ok(last'))
    => store' = store

C27_FailureKeepsRecord == [][C27_Step]_vars

C27_Witness ==
  /\ last.op = "get_token" /\ ~Ok(last)
  /\ RefreshRequest(last) /\ last.resp.status = 400
  /\ store # EmptyDict /\ store["access_token"] = "at1"

\* C28 as stated: whenever an authorization_code token request carries a
\* code_verifier, the authorization URL built last carried the
\* code_challenge derived from that verifier.
C28_Step ==
  (/\ last'.op = "fetch_token" /\ AuthCodeRequest(last')
   /\ "code_verifier" \in DOMAIN Body(last'))
  => /\ last.op = "create_authorization_url" /\ Ok(last)
     /\ "code_challenge" \in DOMAIN last.ret.params
     /\ last.ret.params["code_challenge"]
          = GenerateCodeChallenge(Body(last')["code_verifier"])

C28_VerifierMatchesLatestUrl == [][C28_Step]_vars

\* C28 amended: the code_verifier of an authorization_code token request is
\* the one generated by the most recent create_authorization_url call made
\* with use_pkce=true.  That call put the challenge derived from it among
\* the parameters unless the extra parameters brought their own
\* code_challenge, which then went out instead; a URL built with
\* use_pkce=false generates nothing and leaves the verifier in the slot.
C28_AmendedStep ==
  /\ (/\ last'.op = "fetch_token" /\ AuthCodeRequest(last')
      /\ "code_verifier" \in DOMAIN Body(last'))
     => /\ nverif > 0
        /\ Body(last')["code_verifier"] = GenerateCodeVerifier(nverif)
        /\ code_verifier = GenerateCodeVerifier(nverif)
  /\ (last'.op = "create_authorization_url" /\ Ok(last')) =>
       IF last'.args.use_pkce = True
       THEN /\ nverif' = nverif + 1
            /\ code_verifier' = GenerateCodeVerifier(nverif')
            /\ last'.ret.params["code_challenge"] =
                 IF "code_challenge" \in DOMAIN last'.args.kwargs
                 THEN last'.args.kwargs["code_challenge"]
                 ELSE GenerateCodeChallenge(code_verifier')
       ELSE /\ nverif' = nverif
            /\ code_verifier' = code_verifier
            /\ "code_challenge" \in DOMAIN last'.ret.params
                 => "code_challenge" \in DOMAIN last'.args.kwargs

C28_VerifierOfLatestPkceUrl == [][C28_AmendedStep]_vars

C28_Witness ==
  /\ last.op = "fetch_token" /\ AuthCodeRequest(last)
  /\ nverif = 2
  /\ Body(last)["code_verifier"] = "v2"
  /\ code_verifier = None

\* C29: an authorization_code fetch_token that sends its token request
\* leaves the verifier slot empty whether the exchange succeeds or fails
\* (non-200 answer or transport failure), so an authorization_code
\* fetch_token that follows a failed one sends no code_verifier.
C29_Step ==
  /\ (last'.op = "fetch_token" /\ AuthCodeRequest(last')) => code_verifier' = None
  /\ (/\ last.op = "fetch_token" /\ AuthCodeRequest(last) /\ ~Ok(last)
      /\ last'.op = "fetch_token" /\ AuthCodeRequest(last'))
     => "code_verifier" \notin DOMAIN Body(last')

C29_VerifierClearedOnFailure == [][C29_Step]_vars

C29_Witness ==
  /\ last.op = "fetch_token" /\ AuthCodeRequest(last)
  /\ "code_verifier" \notin DOMAIN Body(last)
  /\ nreq = 2 /\ verifiersSent = <<"v1">>
  /\ store = EmptyDict
  /\ last.args.code = "code1"

====
